---- MODULE Spec2Model ----
(***************************************************************************)
(* A model of the CHIP-8 virtual machine of src/main.rs: the state of      *)
(* struct Emulator, the outer loop of Emulator::run (timer tick, a batch   *)
(* of at most 100 instructions, window update) and one action per arm of   *)
(* the instruction match.                                                  *)
(***************************************************************************)
EXTENDS Integers, Sequences, FiniteSets, TLC

\* ------------------------------------------------------------ constants

WIDTH == 64
HEIGHT == 32
MemSize == 4096
FontBase == \h50
ProgBase == \h200
BatchSize == 100

\* The physical key each logical key 0x0..0xF maps to (1-based tuple).
KEY_MAPPINGS ==
  << "X", "Key1", "Key2", "Key3", "Q", "W", "E", "A",
     "S", "D", "Z", "C", "Key4", "R", "F", "V" >>

FONTS ==
  << \hF0, \h90, \h90, \h90, \hF0,
     \h20, \h60, \h20, \h20, \h70,
     \hF0, \h10, \hF0, \h80, \hF0,
     \hF0, \h10, \hF0, \h10, \hF0,
     \h90, \h90, \hF0, \h10, \h10,
     \hF0, \h80, \hF0, \h10, \hF0,
     \hF0, \h80, \hF0, \h90, \hF0,
     \hF0, \h10, \h20, \h40, \h40,
     \hF0, \h90, \hF0, \h90, \hF0,
     \hF0, \h90, \hF0, \h10, \hF0,
     \hF0, \h90, \hF0, \h90, \h90,
     \hE0, \h90, \hE0, \h90, \hE0,
     \hF0, \h80, \h80, \h80, \hF0,
     \hE0, \h90, \h90, \h90, \hE0,
     \hF0, \h80, \hF0, \h80, \hF0,
     \hF0, \h80, \hF0, \h80, \h80 >>

\* --------------------------------------------------------------- bounds

\* The call stack is a Vec that grows without limit; the model stops
\* pushing at this depth.
MaxStack == 13

\* ------------------------------------------------------ byte arithmetic

\* Bit k (0 = least significant) of v.
Bit(v, k) == (v \div (2 ^ k)) % 2

\* Bit j of a byte viewed Msb0 (0 = most significant), as view_bits::<Msb0>.
Msb0Bit(b, j) == Bit(b, 7 - j) = 1

BitAnd(a, b) ==
  LET S[k \in 0..8] == IF k = 8 THEN 0
                       ELSE (Bit(a, k) * Bit(b, k)) * (2 ^ k) + S[k + 1]
  IN S[0]

BitOr(a, b) ==
  LET S[k \in 0..8] == IF k = 8 THEN 0
                       ELSE (IF Bit(a, k) + Bit(b, k) > 0 THEN 1 ELSE 0) * (2 ^ k)
                            + S[k + 1]
  IN S[0]

BitXor(a, b) ==
  LET S[k \in 0..8] == IF k = 8 THEN 0
                       ELSE ((Bit(a, k) + Bit(b, k)) % 2) * (2 ^ k) + S[k + 1]
  IN S[0]

\* ------------------------------------------------------------- programs

\* The two bytes of the instruction word with nibbles a b c d.
H(a, b, c, d) == << a * 16 + b, c * 16 + d >>

\* The two bytes of the instruction word with nibbles a b and low byte v.
HV(a, b, v) == << a * 16 + b, v >>

\* The two bytes of the instruction word with high nibble a and address nnn.
HA(a, nnn) == << a * 16 + (nnn \div 256), nnn % 256 >>

RECURSIVE Flat(_)
\* The byte sequence of a sequence of instruction words.
Flat(ws) == IF ws = << >> THEN << >> ELSE Head(ws) \o Flat(Tail(ws))

\* The ROMs the model loads.  Register contents come from Cxnn (every random
\* byte, masked by the ROM) and 6xnn.

\* Scenario A: clear, then jump to self.
ClearLoopRoms == { Flat(<< HV(0, 0, \hE0), HA(1, \h202) >>) }

\* One-word ROMs whose word matches no arm of the match.
InvalidRoms ==
  { HV(0, x, v) : x \in {0, 7}, v \in (0..255) \ {\hE0, \hEE} }
    \cup { H(5, 0, 1, n) : n \in 1..15 }
    \cup { H(9, 0, 1, n) : n \in 1..15 }
    \cup { H(8, 0, 1, n) : n \in (8..13) \cup {15} }
    \cup { HV(14, 0, v) : v \in (0..255) \ {\h9E, \hA1} }
    \cup { HV(15, 0, v) : v \in (0..255) \ {\h07, \h0A, \h15, \h18, \h1E,
                                            \h29, \h33, \h55, \h65} }

\* Call, return, jump.
CallRoms ==
  { HV(0, 0, \hEE),
    HA(2, \h200),
    Flat(<< HA(2, \h204), HA(1, \h202), HA(2, \h208), HV(0, 0, \hEE),
            HV(0, 0, \hEE) >>),
    HA(1, \hFFF),
    HA(1, \hFFE) }

\* Register pairs (x, y) of the two-register instructions.
RegPairs == { << 0, 1 >>, << 15, 1 >>, << 1, 15 >>, << 15, 15 >>, << 2, 2 >> }

AluOps == (0..7) \cup {14}

\* 8xyN on random operands; the second family starts with a random flag.
AluRoms ==
  { Flat(<< HV(12, p[1], \h83), HV(12, p[2], \hC1), H(8, p[1], p[2], n) >>) :
      p \in RegPairs, n \in AluOps }
    \cup { Flat(<< HV(12, 15, \h81), HV(12, 0, \h83), HV(12, 1, \hC1),
                   H(8, 0, 1, n) >>) : n \in AluOps }

\* The shifts on every byte.
ShiftRoms ==
  { Flat(<< HV(12, p[2], \hFF), H(8, p[1], p[2], n) >>) :
      p \in { << 0, 1 >>, << 15, 1 >>, << 0, 15 >>, << 3, 3 >> }, n \in {6, 14} }

\* 6xnn, 7xnn and the skips.
ImmRoms ==
  { Flat(<< HV(6, 0, 5), HV(7, 0, 5) >>),
    Flat(<< HV(12, 15, 1), HV(12, 0, \hFF), HV(7, 0, 1) >>),
    Flat(<< HV(12, 15, \hFF), HV(7, 15, \hFF) >>),
    Flat(<< HV(12, 0, 3), HV(12, 1, 3), HV(3, 0, 1), HV(4, 0, 2), H(5, 0, 1, 0),
            H(9, 0, 1, 0), HV(6, 10, 1) >>) }

\* Annn, Fx1E, Bnnn.
IndexRoms ==
  { Flat(<< HA(10, \hFFF), HV(12, 0, \hFF), HV(15, 0, \h1E) >>),
    Flat(<< HA(10, \hFFF), HV(6, 0, \hFF), HV(15, 0, \h1E), HV(15, 0, \h55) >>),
    Flat(<< HV(12, 0, 6), HA(11, \h204), HV(6, 1, 1), HV(6, 1, 2), HV(6, 1, 3),
            HV(6, 1, 4) >>),
    Flat(<< HV(12, 0, \hFF), HA(11, \hFFF) >>) }

\* Fx29 on every byte, and on 0x10.
FontRoms ==
  { Flat(<< HV(12, x, \hFF), HV(15, x, \h29) >>) : x \in {0, 15} }
    \cup { Flat(<< HV(6, 0, \h10), HV(15, 0, \h29) >>) }

\* Ex9E and ExA1 on every byte, after a window update, and on 0x10.
KeySkipRoms ==
  { Flat(<< HV(0, 0, \hE0), HV(12, 0, \hFF), HV(14, 0, v) >>) : v \in {\h9E, \hA1} }
    \cup { Flat(<< HV(6, 0, \h10), HV(14, 0, v) >>) : v \in {\h9E, \hA1} }

\* Fx0A.
WaitKeyRoms ==
  { Flat(<< HV(6, x, \h77), HA(10, \h123), HV(15, x, \h0A), HV(6, 1, \h55) >>) :
      x \in {0, 15} }

\* Fx15, Fx18, Fx07 and a loop that lets the timers run down.
TimerRoms ==
  { Flat(<< HV(6, 0, v), HV(15, 0, \h15), HV(15, 0, \h18), HV(15, 1, \h07),
            HA(1, \h206) >>) : v \in {0, 1, 3} }
    \cup { Flat(<< HV(6, 0, 3), HV(15, 0, \h18), HV(15, 1, \h18), HA(1, \h206) >>) }

\* Fx33, Fx55, Fx65, in range and at the end of memory.
MemRoms ==
  { Flat(<< HA(10, \h300), HV(12, 0, \hFF), HV(15, 0, \h33) >>),
    Flat(<< HA(10, \hFFD), HV(15, 0, \h33) >>),
    Flat(<< HA(10, \hFFE), HV(15, 0, \h33) >>),
    Flat(<< HA(10, \hFFF), HV(15, 0, \h33) >>),
    Flat(<< HA(10, \hFFF), HV(15, 0, \h55) >>),
    Flat(<< HA(10, \hFFF), HV(15, 1, \h55) >>),
    Flat(<< HA(10, \hFFF), HV(15, 1, \h65) >>),
    Flat(<< HA(10, \h050), HV(15, 15, \h65) >>),
    Flat(<< HA(10, \h300), HV(12, 0, \h83), HV(12, 1, \hC1), HV(15, 1, \h55),
            HA(10, \h300), HV(15, 2, \h65) >>) }

\* Register values giving the sprite origins of the draw ROMs.
XOrigins == {0, 3, 56, 60, 63, 67, 255}
YOrigins == {0, 28, 31, 33, 255}
SpriteRows == {0, 1, 5, 15}

\* Two draws at one origin: n rows from glyph "0", then glyph "1".
DrawRoms ==
  { Flat(<< HV(6, p[1], xx), HV(6, p[2], yy), HA(10, \h050), H(13, p[1], p[2], n),
            HA(10, \h055), H(13, p[1], p[2], 5) >>) :
      p \in { << 0, 1 >> }, xx \in XOrigins, yy \in YOrigins, n \in SpriteRows }
    \cup
  { Flat(<< HV(6, p[2], 3), HV(6, p[1], 60), HA(10, \h050), H(13, p[1], p[2], 5),
            H(13, p[1], p[2], 5) >>) :
      p \in { << 15, 1 >>, << 1, 15 >>, << 15, 15 >> } }

\* Scenario C (sprite byte 0xFF at 0x208, origin (60,0)) and sprites read at
\* the end of memory.
DrawEdgeRoms ==
  { Flat(<< HV(6, 0, 60), HA(10, \h208), H(13, 0, 1, 1), HA(1, \h206),
            << \hFF >> >>),
    Flat(<< HA(10, \hFFF), H(13, 0, 0, 1) >>),
    Flat(<< HA(10, \hFFF), H(13, 0, 0, 2) >>),
    Flat(<< HA(10, \hFFF), HV(6, 1, 31), H(13, 0, 1, 2) >>) }

\* A sprite drawn with the timers running, then a clear of the lit screen.
ClearDrawnRoms ==
  { Flat(<< HV(6, 0, 3), HV(6, 1, yy), HV(15, 0, \h15), HV(15, 0, \h18),
            HA(10, \h050), H(13, 0, 1, 5), HV(0, 0, \hE0) >>) : yy \in {0, 27, 31} }

Programs ==
  ClearLoopRoms \cup InvalidRoms \cup CallRoms \cup AluRoms \cup ShiftRoms
    \cup ImmRoms \cup IndexRoms \cup FontRoms \cup KeySkipRoms \cup WaitKeyRoms
    \cup TimerRoms \cup MemRoms \cup DrawRoms \cup DrawEdgeRoms
    \cup ClearDrawnRoms

\* The key snapshots a window update may deliver: keys down, keys released.
KeyInputs ==
  { [down |-> {}, up |-> {}],
    [down |-> {"X", "W"}, up |-> {"V"}],
    [down |-> {"V"}, up |-> {"Key2", "Q"}],
    [down |-> {"Key1"}, up |-> {"X", "V"}] }

\* ---------------------------------------------------------------- state

VARIABLES
  program,      \* the ROM bytes given to Emulator::new
  mem,          \* [u8; 4096]
  reg,          \* [u8; 16]
  stack,        \* Vec<u16>
  pc,           \* u16
  idx,          \* u16
  delay,        \* u8
  sound,        \* u8
  screen,       \* [u64; 32]: per row, the set of Msb0 bit indices that are set
  playing,      \* whether the audio stream is playing
  key_pressed,  \* window.get_keys()
  key_released, \* window.get_keys_released()
  loc,          \* position in run: "loop", "batch" or "update"
  cycles,       \* _cycles of the for loop
  result,       \* "running", or how run ended
  last          \* the instruction word executed last, -1 before the first

vm == << mem, reg, stack, pc, idx, delay, sound, screen, playing >>
keys == << key_pressed, key_released >>
ctl == << loc, cycles, result, last >>
vars == << program, vm, keys, ctl >>

\* ----------------------------------------------------------------- init

RECURSIVE CopyFromSlice(_, _, _, _)
\* m[base..base+len].copy_from_slice(bytes), from the i-th byte on.
CopyFromSlice(m, base, bytes, i) ==
  IF i > Len(bytes) THEN m
  ELSE CopyFromSlice([m EXCEPT ![base + i - 1] = bytes[i]], base, bytes, i + 1)

\* [0; 4096] with the fonts copied to 0x50.
FontImage == CopyFromSlice([a \in 0..(MemSize - 1) |-> 0], FontBase, FONTS, 1)

\* Emulator::new: the fonts at 0x50, the ROM at 0x200, zero elsewhere.
LoadImage(rom) == CopyFromSlice(FontImage, ProgBase, rom, 1)

Init ==
  /\ program \in Programs
  /\ mem = LoadImage(program)
  /\ reg = [i \in 0..15 |-> 0]
  /\ stack = << >>
  /\ pc = ProgBase
  /\ idx = 0
  /\ delay = 0
  /\ sound = 0
  /\ screen = [r \in 0..(HEIGHT - 1) |-> {}]
  /\ playing = FALSE
  /\ key_pressed = {}
  /\ key_released = {}
  /\ loc = "loop"
  /\ cycles = 0
  /\ result = "running"
  /\ last = -1

\* ----------------------------------------------------------- outer loop

\* Tick, but the delay timer wraps below zero.
TickWrapping ==
  /\ result = "running" /\ loc = "loop"
  /\ delay' = (delay + 255) % 256
  /\ sound' = IF sound > 0 THEN sound - 1 ELSE sound
  /\ playing' = IF sound = 1 THEN FALSE ELSE playing
  /\ cycles' = 0
  /\ loc' = "batch"
  /\ UNCHANGED << program, mem, reg, stack, pc, idx, screen, keys, result, last >>

\* Tick, but the stream is not paused when the sound timer reaches zero.
TickNoPause ==
  /\ result = "running" /\ loc = "loop"
  /\ delay' = IF delay > 0 THEN delay - 1 ELSE 0
  /\ sound' = IF sound > 0 THEN sound - 1 ELSE sound
  /\ playing' = playing
  /\ cycles' = 0
  /\ loc' = "batch"
  /\ UNCHANGED << program, mem, reg, stack, pc, idx, screen, keys, result, last >>

\* The while condition holds: both timers tick, then the batch starts.
Tick ==
  /\ result = "running" /\ loc = "loop"
  /\ delay' = IF delay > 0 THEN delay - 1 ELSE 0
  /\ sound' = IF sound > 0 THEN sound - 1 ELSE sound
  /\ playing' = IF sound = 1 THEN FALSE ELSE playing
  /\ cycles' = 0
  /\ loc' = "batch"
  /\ UNCHANGED << program, mem, reg, stack, pc, idx, screen, keys, result, last >>

\* The window is closed or Escape is down: run returns Ok(()).
Quit ==
  /\ result = "running" /\ loc = "loop"
  /\ result' = "Ok"
  /\ UNCHANGED << program, vm, keys, loc, cycles, last >>

\* window.update() after the batch: a new key snapshot.
WindowUpdate ==
  /\ result = "running" /\ loc = "update"
  /\ \E k \in KeyInputs : key_pressed' = k.down /\ key_released' = k.up
  /\ loc' = "loop"
  /\ UNCHANGED << program, vm, cycles, result, last >>

\* --------------------------------------------------------------- decode

\* The instruction slice mem[pc..pc+2] is in range.
Fetchable == result = "running" /\ loc = "batch" /\ pc + 2 <= MemSize

b0 == mem[pc]
b1 == mem[pc + 1]
Word == 256 * b0 + b1
\* x, but taken from the low byte of the word.
xFromLowByte == b1 % 16

op == b0 \div 16
x == b0 % 16
y == b1 \div 16
n == b1 % 16
value == b1
address == (b0 % 16) * 256 + b1

\* The slice is out of range: the index panics.
FetchPanic ==
  /\ result = "running" /\ loc = "batch" /\ pc + 2 > MemSize
  /\ result' = "panic"
  /\ UNCHANGED << program, vm, keys, loc, cycles, last >>

\* The instruction is done and the for loop goes on, or ends after 100 cycles.
NextCycle ==
  /\ last' = Word
  /\ cycles' = cycles + 1
  /\ loc' = IF cycles + 1 = BatchSize THEN "update" ELSE "batch"
  /\ UNCHANGED << program, result >>

\* blit_and_update hands the frame to the window, which takes a new key
\* snapshot; then the batch is left.
BlitAndBreak ==
  /\ last' = Word
  /\ \E k \in KeyInputs : key_pressed' = k.down /\ key_released' = k.up
  /\ loc' = "update"
  /\ UNCHANGED << program, cycles, result >>

\* run returns Err(msg).
Fail(msg) ==
  /\ last' = Word
  /\ result' = msg
  /\ UNCHANGED << program, loc, cycles >>

\* An index out of range panics inside the instruction, after pc += 2; the
\* caller states what the instruction had written by then.
Panic ==
  /\ last' = Word
  /\ result' = "panic"
  /\ pc' = pc + 2
  /\ UNCHANGED << program, keys, loc, cycles >>

\* --------------------------------------------------------- instructions

\* Clear, but the fill stops one row short of the bottom.
ClearSkipsLastRow ==
  /\ Fetchable /\ op = 0 /\ value = \hE0
  /\ screen' = [r \in 0..(HEIGHT - 1) |-> IF r = HEIGHT - 1 THEN screen[r] ELSE {}]
  /\ pc' = pc + 2
  /\ BlitAndBreak
  /\ UNCHANGED << mem, reg, stack, idx, delay, sound, playing >>

\* Clear, but the batch goes on after the screen is blanked.
ClearNoBreak ==
  /\ Fetchable /\ op = 0 /\ value = \hE0
  /\ screen' = [r \in 0..(HEIGHT - 1) |-> {}]
  /\ pc' = pc + 2
  /\ NextCycle
  /\ UNCHANGED << mem, reg, stack, idx, delay, sound, playing, keys >>

\* 00E0
Clear ==
  /\ Fetchable /\ op = 0 /\ value = \hE0
  /\ screen' = [r \in 0..(HEIGHT - 1) |-> {}]
  /\ pc' = pc + 2
  /\ BlitAndBreak
  /\ UNCHANGED << mem, reg, stack, idx, delay, sound, playing >>

\* Return, but a return on an empty stack is skipped as a no-op.
ReturnNoop ==
  /\ Fetchable /\ op = 0 /\ value = \hEE
  /\ IF stack = << >>
     THEN /\ pc' = pc + 2
          /\ stack' = stack
          /\ NextCycle
     ELSE /\ pc' = stack[Len(stack)]
          /\ stack' = SubSeq(stack, 1, Len(stack) - 1)
          /\ NextCycle
  /\ UNCHANGED << mem, reg, idx, delay, sound, screen, playing, keys >>

\* 00EE
Return ==
  /\ Fetchable /\ op = 0 /\ value = \hEE
  /\ IF stack = << >>
     THEN /\ Fail("tried to pop an empty stack")
          /\ pc' = pc + 2
          /\ stack' = stack
     ELSE /\ pc' = stack[Len(stack)]
          /\ stack' = SubSeq(stack, 1, Len(stack) - 1)
          /\ NextCycle
  /\ UNCHANGED << mem, reg, idx, delay, sound, screen, playing, keys >>

\* 1nnn
Jump ==
  /\ Fetchable /\ op = 1
  /\ pc' = address
  /\ NextCycle
  /\ UNCHANGED << mem, reg, stack, idx, delay, sound, screen, playing, keys >>

\* Call, but the address of the call itself is pushed.
CallPushesSite ==
  /\ Fetchable /\ op = 2
  /\ Len(stack) < MaxStack
  /\ stack' = Append(stack, pc)
  /\ pc' = address
  /\ NextCycle
  /\ UNCHANGED << mem, reg, idx, delay, sound, screen, playing, keys >>

\* 2nnn
Call ==
  /\ Fetchable /\ op = 2
  /\ Len(stack) < MaxStack
  /\ stack' = Append(stack, pc + 2)
  /\ pc' = address
  /\ NextCycle
  /\ UNCHANGED << mem, reg, idx, delay, sound, screen, playing, keys >>

\* The instruction changes pc only, to newpc.
OnlyPc(newpc) ==
  /\ pc' = newpc
  /\ NextCycle
  /\ UNCHANGED << mem, reg, stack, idx, delay, sound, screen, playing, keys >>

\* The instruction changes the registers only, to newreg.
OnlyReg(newreg) ==
  /\ reg' = newreg
  /\ pc' = pc + 2
  /\ NextCycle
  /\ UNCHANGED << mem, stack, idx, delay, sound, screen, playing, keys >>

\* The instruction changes idx only, to newidx.
OnlyIdx(newidx) ==
  /\ idx' = newidx
  /\ pc' = pc + 2
  /\ NextCycle
  /\ UNCHANGED << mem, reg, stack, delay, sound, screen, playing, keys >>

\* WithFlag, but the flag is written before the result.
WithFlagFirst(res, flag) == [[reg EXCEPT ![15] = flag] EXCEPT ![x] = res]

\* reg[x] = res; reg[0xF] = flag, in this order.
WithFlag(res, flag) == [[reg EXCEPT ![x] = res] EXCEPT ![15] = flag]

\* 3xnn
SkipEqImm ==
  /\ Fetchable /\ op = 3
  /\ OnlyPc(IF reg[x] = value THEN pc + 4 ELSE pc + 2)

\* 4xnn
SkipNeImm ==
  /\ Fetchable /\ op = 4
  /\ OnlyPc(IF reg[x] # value THEN pc + 4 ELSE pc + 2)

\* 5xy0
SkipEqReg ==
  /\ Fetchable /\ op = 5 /\ n = 0
  /\ OnlyPc(IF reg[x] = reg[y] THEN pc + 4 ELSE pc + 2)

\* 6xnn
LoadImm ==
  /\ Fetchable /\ op = 6
  /\ OnlyReg([reg EXCEPT ![x] = value])

\* AddImm, but the carry of the addition is written to the flag register.
AddImmSetsFlag ==
  /\ Fetchable /\ op = 7
  /\ OnlyReg([[reg EXCEPT ![x] = (reg[x] + value) % 256]
                EXCEPT ![15] = (reg[x] + value) \div 256])

\* 7xnn
AddImm ==
  /\ Fetchable /\ op = 7
  /\ OnlyReg([reg EXCEPT ![x] = (reg[x] + value) % 256])

\* 8xy0
Copy ==
  /\ Fetchable /\ op = 8 /\ n = 0
  /\ OnlyReg([reg EXCEPT ![x] = reg[y]])

\* Or, but the flag register is left alone.
OrKeepsFlag ==
  /\ Fetchable /\ op = 8 /\ n = 1
  /\ OnlyReg([reg EXCEPT ![x] = BitOr(reg[x], reg[y])])

\* 8xy1
Or ==
  /\ Fetchable /\ op = 8 /\ n = 1
  /\ OnlyReg(WithFlag(BitOr(reg[x], reg[y]), 0))

\* 8xy2
And ==
  /\ Fetchable /\ op = 8 /\ n = 2
  /\ OnlyReg(WithFlag(BitAnd(reg[x], reg[y]), 0))

\* 8xy3
Xor ==
  /\ Fetchable /\ op = 8 /\ n = 3
  /\ OnlyReg(WithFlag(BitXor(reg[x], reg[y]), 0))

\* 8xy4
AddCarry ==
  /\ Fetchable /\ op = 8 /\ n = 4
  /\ OnlyReg(WithFlag((reg[x] + reg[y]) % 256,
                      IF reg[x] + reg[y] > 255 THEN 1 ELSE 0))

\* 8xy5
SubXY ==
  /\ Fetchable /\ op = 8 /\ n = 5
  /\ OnlyReg(WithFlag((reg[x] - reg[y]) % 256,
                      IF reg[x] < reg[y] THEN 0 ELSE 1))

\* ShiftRight, but shifting Reg[x] in place.
ShiftRightInPlace ==
  /\ Fetchable /\ op = 8 /\ n = 6
  /\ OnlyReg(WithFlag(reg[x] \div 2, BitAnd(reg[x], 1)))

\* 8xy6
ShiftRight ==
  /\ Fetchable /\ op = 8 /\ n = 6
  /\ OnlyReg(WithFlag(reg[y] \div 2, BitAnd(reg[y], 1)))

\* 8xy7
SubYX ==
  /\ Fetchable /\ op = 8 /\ n = 7
  /\ OnlyReg(WithFlag((reg[y] - reg[x]) % 256,
                      IF reg[y] < reg[x] THEN 0 ELSE 1))

\* 8xyE
ShiftLeft ==
  /\ Fetchable /\ op = 8 /\ n = 14
  /\ OnlyReg(WithFlag((reg[y] * 2) % 256, BitAnd(reg[y], 128) \div 128))

\* 9xy0
SkipNeReg ==
  /\ Fetchable /\ op = 9 /\ n = 0
  /\ OnlyPc(IF reg[x] # reg[y] THEN pc + 4 ELSE pc + 2)

\* Annn
SetIndex ==
  /\ Fetchable /\ op = 10
  /\ OnlyIdx(address)

\* Bnnn
JumpOffset ==
  /\ Fetchable /\ op = 11
  /\ OnlyPc(address + reg[0])

\* Cxnn: any byte of the generator, masked.
Random ==
  /\ Fetchable /\ op = 12
  /\ \E v \in { BitAnd(r, value) : r \in 0..255 } : OnlyReg([reg EXCEPT ![x] = v])

RECURSIVE DrawColsOr(_, _, _, _, _)
\* DrawCols, but a set sprite bit sets the pixel instead of toggling it.
DrawColsOr(row, flag, b, x_pos, j) ==
  IF j >= 8 \/ x_pos + j >= 64 THEN << row, flag >>
  ELSE IF Msb0Bit(b, j)
       THEN IF (x_pos + j) \in row
            THEN DrawColsOr(row, 1, b, x_pos, j + 1)
            ELSE DrawColsOr(row \cup {x_pos + j}, flag, b, x_pos, j + 1)
       ELSE DrawColsOr(row, flag, b, x_pos, j + 1)

RECURSIVE DrawColsWrap(_, _, _, _, _)
\* DrawCols, but columns past the right edge wrap to the left edge.
DrawColsWrap(row, flag, b, x_pos, j) ==
  IF j >= 8 THEN << row, flag >>
  ELSE IF Msb0Bit(b, j)
       THEN IF ((x_pos + j) % 64) \in row
            THEN DrawColsWrap(row \ {(x_pos + j) % 64}, 1, b, x_pos, j + 1)
            ELSE DrawColsWrap(row \cup {(x_pos + j) % 64}, flag, b, x_pos, j + 1)
       ELSE DrawColsWrap(row, flag, b, x_pos, j + 1)

RECURSIVE DrawCols(_, _, _, _, _)
\* Columns j..7 of one sprite row b onto a screen row; << row, flag >>.
DrawCols(row, flag, b, x_pos, j) ==
  IF j >= 8 \/ x_pos + j >= 64 THEN << row, flag >>
  ELSE IF Msb0Bit(b, j)
       THEN IF (x_pos + j) \in row
            THEN DrawCols(row \ {x_pos + j}, 1, b, x_pos, j + 1)
            ELSE DrawCols(row \cup {x_pos + j}, flag, b, x_pos, j + 1)
       ELSE DrawCols(row, flag, b, x_pos, j + 1)

RECURSIVE DrawRows(_, _, _, _, _)
\* Sprite rows i..n-1 onto the screen, up to the end of the sprite, the
\* bottom edge or a sprite row outside memory; << screen, flag >>.
DrawRows(scr, flag, x_pos, y_pos, i) ==
  IF i >= n \/ y_pos + i >= 32 \/ idx + i >= MemSize THEN << scr, flag >>
  ELSE LET r == DrawCols(scr[y_pos + i], flag, mem[idx + i], x_pos, 0)
       IN DrawRows([scr EXCEPT ![y_pos + i] = r[1]], r[2], x_pos, y_pos, i + 1)

\* Some sprite row that is drawn lies outside memory.
DrawReadsOutside ==
  \E i \in 0..(n - 1) : (reg[y] % 32) + i < 32 /\ idx + i >= MemSize

\* Dxyn
Draw ==
  /\ Fetchable /\ op = 13
  /\ LET d == DrawRows(screen, 0, reg[x] % 64, reg[y] % 32, 0)
     IN /\ screen' = d[1]
        /\ reg' = [reg EXCEPT ![15] = d[2]]
        /\ IF DrawReadsOutside
           THEN Panic
           ELSE pc' = pc + 2 /\ BlitAndBreak
        /\ UNCHANGED << mem, stack, idx, delay, sound, playing >>

\* KEY_MAPPINGS[i] for a u8 i; the caller checks i < 16.
KeyOf(i) == KEY_MAPPINGS[i + 1]

\* Ex9E
SkipKey ==
  /\ Fetchable /\ op = 14 /\ value = \h9E
  /\ IF reg[x] >= Len(KEY_MAPPINGS)
     THEN Panic /\ UNCHANGED << mem, reg, stack, idx, delay, sound, screen, playing >>
     ELSE OnlyPc(IF KeyOf(reg[x]) \in key_pressed THEN pc + 4 ELSE pc + 2)

\* ExA1
SkipNotKey ==
  /\ Fetchable /\ op = 14 /\ value = \hA1
  /\ IF reg[x] >= Len(KEY_MAPPINGS)
     THEN Panic /\ UNCHANGED << mem, reg, stack, idx, delay, sound, screen, playing >>
     ELSE OnlyPc(IF KeyOf(reg[x]) \notin key_pressed THEN pc + 4 ELSE pc + 2)

\* Fx07
GetDelay ==
  /\ Fetchable /\ op = 15 /\ value = \h07
  /\ OnlyReg([reg EXCEPT ![x] = delay])

\* ReleasedKeys, but scanning all sixteen keys.
ReleasedKeysAll == { i \in 0..15 : KeyOf(i) \in key_released }

\* The logical keys 0x0..0xE whose physical key was released.
ReleasedKeys == { i \in 0..14 : KeyOf(i) \in key_released }

\* The least element of a non-empty set of numbers.
Least(S) == CHOOSE i \in S : \A k \in S : i <= k

\* Fx0A
WaitKey ==
  /\ Fetchable /\ op = 15 /\ value = \h0A
  /\ IF ReleasedKeys # {}
     THEN OnlyReg([reg EXCEPT ![x] = Least(ReleasedKeys)])
     ELSE OnlyPc(pc)

\* Fx15
SetDelay ==
  /\ Fetchable /\ op = 15 /\ value = \h15
  /\ delay' = reg[x]
  /\ pc' = pc + 2
  /\ NextCycle
  /\ UNCHANGED << mem, reg, stack, idx, sound, screen, playing, keys >>

\* Fx18
SetSound ==
  /\ Fetchable /\ op = 15 /\ value = \h18
  /\ sound' = reg[x]
  /\ playing' = (reg[x] # 0)
  /\ pc' = pc + 2
  /\ NextCycle
  /\ UNCHANGED << mem, reg, stack, idx, delay, screen, keys >>

\* Fx1E
AddIndex ==
  /\ Fetchable /\ op = 15 /\ value = \h1E
  /\ OnlyIdx((idx + reg[x]) % 65536)

\* Fx29
FontChar ==
  /\ Fetchable /\ op = 15 /\ value = \h29
  /\ OnlyIdx(FontBase + 5 * reg[BitAnd(x, 15)])

\* m[a] = v where a is in range; an index past the end panics before it
\* writes.
StoreAt(m, a, v) == IF a < MemSize THEN [m EXCEPT ![a] = v] ELSE m

\* Bcd, but the units digit is stored first and the hundreds digit last.
BcdUnitsFirst ==
  /\ Fetchable /\ op = 15 /\ value = \h33
  /\ mem' = StoreAt(StoreAt(StoreAt(mem, idx, reg[x] % 10),
                                    idx + 1, (reg[x] % 100) \div 10),
                            idx + 2, reg[x] \div 100)
  /\ IF idx + 2 >= MemSize
     THEN Panic
     ELSE pc' = pc + 2 /\ NextCycle /\ UNCHANGED keys
  /\ UNCHANGED << reg, stack, idx, delay, sound, screen, playing >>

\* Fx33
Bcd ==
  /\ Fetchable /\ op = 15 /\ value = \h33
  /\ mem' = StoreAt(StoreAt(StoreAt(mem, idx, reg[x] \div 100),
                                    idx + 1, (reg[x] % 100) \div 10),
                            idx + 2, reg[x] % 10)
  /\ IF idx + 2 >= MemSize
     THEN Panic
     ELSE pc' = pc + 2 /\ NextCycle /\ UNCHANGED keys
  /\ UNCHANGED << reg, stack, idx, delay, sound, screen, playing >>

\* StoreRegs, but idx is left where it was.
StoreRegsKeepsIdx ==
  /\ Fetchable /\ op = 15 /\ value = \h55
  /\ mem' = [a \in 0..(MemSize - 1) |->
               IF a >= idx /\ a <= idx + x THEN reg[a - idx] ELSE mem[a]]
  /\ IF idx + x >= MemSize
     THEN Panic /\ idx' = (IF idx < MemSize THEN MemSize ELSE idx)
     ELSE idx' = idx /\ pc' = pc + 2 /\ NextCycle /\ UNCHANGED keys
  /\ UNCHANGED << reg, stack, delay, sound, screen, playing >>

\* Fx55
StoreRegs ==
  /\ Fetchable /\ op = 15 /\ value = \h55
  /\ mem' = [a \in 0..(MemSize - 1) |->
               IF a >= idx /\ a <= idx + x THEN reg[a - idx] ELSE mem[a]]
  /\ IF idx + x >= MemSize
     THEN Panic /\ idx' = (IF idx < MemSize THEN MemSize ELSE idx)
     ELSE idx' = idx + x + 1 /\ pc' = pc + 2 /\ NextCycle /\ UNCHANGED keys
  /\ UNCHANGED << reg, stack, delay, sound, screen, playing >>

\* Fx65
LoadRegs ==
  /\ Fetchable /\ op = 15 /\ value = \h65
  /\ reg' = [i \in 0..15 |->
               IF i <= x /\ idx + i < MemSize THEN mem[idx + i] ELSE reg[i]]
  /\ IF idx + x >= MemSize
     THEN Panic /\ idx' = (IF idx < MemSize THEN MemSize ELSE idx)
     ELSE idx' = idx + x + 1 /\ pc' = pc + 2 /\ NextCycle /\ UNCHANGED keys
  /\ UNCHANGED << mem, stack, delay, sound, screen, playing >>

\* No arm of the match fits the word.
Matches ==
  \/ op = 0 /\ value \in {\hE0, \hEE}
  \/ op \in {1, 2, 3, 4, 6, 7, 10, 11, 12, 13}
  \/ op \in {5, 9} /\ n = 0
  \/ op = 8 /\ n \in {0, 1, 2, 3, 4, 5, 6, 7, 14}
  \/ op = 14 /\ value \in {\h9E, \hA1}
  \/ op = 15 /\ value \in {\h07, \h0A, \h15, \h18, \h1E, \h29, \h33, \h55, \h65}

\* _ => return Err("invalid instruction")
Invalid ==
  /\ Fetchable /\ ~Matches
  /\ pc' = pc + 2
  /\ Fail("invalid instruction")
  /\ UNCHANGED << mem, reg, stack, idx, delay, sound, screen, playing, keys >>

Next ==
  \/ Tick
  \/ Quit
  \/ WindowUpdate
  \/ FetchPanic
  \/ Clear
  \/ Return
  \/ Jump
  \/ Call
  \/ SkipEqImm
  \/ SkipNeImm
  \/ SkipEqReg
  \/ LoadImm
  \/ AddImm
  \/ Copy
  \/ Or
  \/ And
  \/ Xor
  \/ AddCarry
  \/ SubXY
  \/ ShiftRight
  \/ SubYX
  \/ ShiftLeft
  \/ SkipNeReg
  \/ SetIndex
  \/ JumpOffset
  \/ Random
  \/ Draw
  \/ SkipKey
  \/ SkipNotKey
  \/ GetDelay
  \/ WaitKey
  \/ SetDelay
  \/ SetSound
  \/ AddIndex
  \/ FontChar
  \/ Bcd
  \/ StoreRegs
  \/ LoadRegs
  \/ Invalid

Spec == Init /\ [][Next]_vars

\* --------------------------------------------------------------- claims

\* The state is well formed: every field keeps its width.
TypeOK ==
  /\ mem \in [0..(MemSize - 1) -> 0..255]
  /\ reg \in [0..15 -> 0..255]
  /\ pc \in 0..65535 /\ idx \in 0..65535
  /\ delay \in 0..255 /\ sound \in 0..255
  /\ \A r \in 0..(HEIGHT - 1) : screen[r] \subseteq 0..(WIDTH - 1)
  /\ cycles \in 0..BatchSize

\* C1: every memory access of the instruction about to run (the fetch at pc
\* and pc+1, the sprite rows of Dxyn, the three bytes of Fx33, idx..idx+x of
\* Fx55/Fx65) uses an address in 0..4095.
C1_AccessInRange ==
  (result = "running" /\ loc = "batch") =>
    /\ pc + 1 < MemSize
    /\ op = 13 => \A i \in 0..(n - 1) : (reg[y] % 32) + i < 32 => idx + i < MemSize
    /\ (op = 15 /\ value = \h33) => idx + 2 < MemSize
    /\ (op = 15 /\ value \in {\h55, \h65}) => idx + x < MemSize

\* The words the claim lists as matching no opcode pattern.
C2_Malformed ==
  \/ op = 0 /\ value \notin {\hE0, \hEE}
  \/ op \in {5, 9} /\ n # 0
  \/ op = 8 /\ n \in (8..13) \cup {15}
  \/ op = 14 /\ value \notin {\h9E, \hA1}
  \/ op = 15 /\ value \notin {\h07, \h0A, \h15, \h18, \h1E, \h29, \h33, \h55, \h65}

\* C2: 00EE on an empty stack and a word that matches no opcode pattern end
\* run in an error (never a no-op), and once run has ended nothing happens:
\* no instruction, no timer tick.
C2_FatalStops ==
  [][ /\ result = "running"
      /\ (Fetchable /\ op = 0 /\ value = \hEE /\ stack = << >>)
           => result' = "tried to pop an empty stack"
      /\ (Fetchable /\ C2_Malformed) => result' = "invalid instruction" ]_vars

C2_Witness ==
  /\ result = "tried to pop an empty stack"
  /\ last = \hEE
  /\ stack = << >>

\* The draw about to run reads its sprite rows inside memory.
DrawCompletes ==
  /\ Fetchable /\ op = 13
  /\ \A i \in 0..(n - 1) : (reg[y] % 32) + i < 32 => idx + i < MemSize

\* The columns of screen row r covered by a set bit of the sprite about to be
\* drawn at (reg[x] mod 64, reg[y] mod 32).
SpriteCols(r) ==
  LET x0 == reg[x] % 64
      y0 == reg[y] % 32
  IN IF r < y0 \/ r >= y0 + n THEN {}
     ELSE { c \in 0..63 : /\ c >= x0 /\ c < x0 + 8
                          /\ Bit(mem[idx + (r - y0)], 7 - (c - x0)) = 1 }

\* C3: Dxyn toggles exactly the in-grid pixels covered by a set sprite bit,
\* and leaves Reg[0xF] = 1 iff one of them was set before, else 0.
C3_DrawXor ==
  [][ DrawCompletes =>
        /\ \A r \in 0..31 :
             screen'[r] = (screen[r] \ SpriteCols(r)) \cup (SpriteCols(r) \ screen[r])
        /\ reg'[15] = IF \E r \in 0..31 : SpriteCols(r) \cap screen[r] # {}
                      THEN 1 ELSE 0
        /\ \A i \in 0..14 : reg'[i] = reg[i] ]_vars

C3_Witness ==
  /\ last \div 4096 = 13
  /\ reg[15] = 1
  /\ \E r \in 0..31 : screen[r] # {}

\* C4: Dxyn clips: a sprite that crosses the right or bottom edge is drawn
\* without error, every pixel it changes lies in the unwrapped 8-by-n
\* footprint and in the 64x32 grid; 0xFF at (60,0) on a blank screen sets
\* exactly columns 60..63 of row 0.
C4_DrawClips ==
  [][ DrawCompletes =>
        /\ result' = "running"
        /\ DOMAIN screen' = 0..31
        /\ \A r \in 0..31 :
             /\ screen'[r] \subseteq 0..63
             /\ \A c \in 0..63 :
                  ((c \in screen'[r]) # (c \in screen[r])) =>
                    /\ r >= reg[y] % 32 /\ r < (reg[y] % 32) + n
                    /\ c >= reg[x] % 64 /\ c < (reg[x] % 64) + 8
        /\ ( /\ reg[x] = 60 /\ reg[y] = 0 /\ n = 1 /\ mem[idx] = 255
             /\ \A r \in 0..31 : screen[r] = {} )
             => screen' = [r \in 0..31 |-> IF r = 0 THEN 60..63 ELSE {}] ]_vars

C4_Witness ==
  /\ last = \hD011
  /\ result = "running"
  /\ screen = [r \in 0..31 |-> IF r = 0 THEN 60..63 ELSE {}]

\* a - b at 8 bits.
Sub8(a, b) == IF a >= b THEN a - b ELSE a - b + 256

\* C5: 8xy4, 8xy5, 8xy7 leave the carry / no-borrow flag in Reg[0xF] and,
\* for x # 0xF, the 8-bit result in Reg[x]; other registers are unchanged.
C5_CarryBorrow ==
  [][ (Fetchable /\ op = 8 /\ n \in {4, 5, 7}) =>
        LET a == reg[x]
            b == reg[y]
            flag == CASE n = 4 -> IF a + b >= 256 THEN 1 ELSE 0
                      [] n = 5 -> IF a >= b THEN 1 ELSE 0
                      [] n = 7 -> IF b >= a THEN 1 ELSE 0
            res == CASE n = 4 -> IF a + b >= 256 THEN a + b - 256 ELSE a + b
                     [] n = 5 -> Sub8(a, b)
                     [] n = 7 -> Sub8(b, a)
        IN /\ reg'[15] = flag
           /\ x # 15 => reg'[x] = res
           /\ \A i \in 0..14 : i # x => reg'[i] = reg[i] ]_vars

C5_Witness ==
  /\ last \div 4096 = 8 /\ last % 16 = 5
  /\ (last \div 256) % 16 = 15
  /\ reg[15] = 1 /\ reg[1] > 1

\* C6: the shifts read Reg[y]: 8xy6 leaves Reg[x] = b >> 1 and Reg[0xF] = bit
\* 0 of b, 8xyE leaves Reg[x] = (b << 1) mod 256 and Reg[0xF] = bit 7 of b;
\* for x = 0xF the register holds the flag.
C6_ShiftFromY ==
  [][ (Fetchable /\ op = 8 /\ n \in {6, 14}) =>
        LET b == reg[y]
        IN /\ reg'[15] = IF n = 6 THEN b % 2 ELSE b \div 128
           /\ x # 15 => reg'[x] = IF n = 6 THEN b \div 2 ELSE (2 * b) % 256
           /\ \A i \in 0..14 : i # x => reg'[i] = reg[i] ]_vars

C6_Witness ==
  /\ last = \h801E
  /\ reg[1] = 129 /\ reg[0] = 2 /\ reg[15] = 1

\* C7: 8xy1, 8xy2, 8xy3 leave Reg[0xF] = 0 and, for x # 0xF, the bitwise
\* OR / AND / XOR in Reg[x]; 8xy0 copies Reg[y] to Reg[x]; no other register
\* changes.
C7_LogicResetsFlag ==
  [][ (Fetchable /\ op = 8 /\ n \in {0, 1, 2, 3}) =>
        LET a == reg[x]
            b == reg[y]
            bit(k) == CASE n = 1 -> IF Bit(a, k) = 1 \/ Bit(b, k) = 1 THEN 1 ELSE 0
                        [] n = 2 -> IF Bit(a, k) = 1 /\ Bit(b, k) = 1 THEN 1 ELSE 0
                        [] n = 3 -> IF Bit(a, k) # Bit(b, k) THEN 1 ELSE 0
        IN /\ n # 0 => /\ reg'[15] = 0
                       /\ x # 15 => \A k \in 0..7 : Bit(reg'[x], k) = bit(k)
           /\ n = 0 => reg'[x] = b
           /\ \A i \in 0..15 : (i # x /\ (i # 15 \/ n = 0)) => reg'[i] = reg[i] ]_vars

C7_Witness ==
  /\ last = \h8011
  /\ reg[0] = 195 /\ reg[1] = 193 /\ reg[15] = 0

\* C8: Fx29 sets idx = 0x50 + 5 * (Reg[x] AND 0xF).
C8_FontOfLowNibble ==
  [][ (Fetchable /\ op = 15 /\ value = \h29) =>
        idx' = \h50 + 5 * (reg[x] % 16) ]_vars

\* C9: Ex9E / ExA1 test the key of Reg[x]'s low nibble, change no register
\* and do not fail.
C9_KeyOfLowNibble ==
  [][ (Fetchable /\ op = 14 /\ value \in {\h9E, \hA1}) =>
        LET down == KEY_MAPPINGS[(reg[x] % 16) + 1] \in key_pressed
        IN /\ result' = "running"
           /\ reg' = reg
           /\ pc' = IF down = (value = \h9E) THEN pc + 4 ELSE pc + 2 ]_vars

\* C10: Fx0A stores the lowest released key among 0x0..0xE in Reg[x] and goes
\* on; with none (key 0xF does not count) pc stays on the Fx0A and registers
\* are unchanged; idx, memory, stack and screen are unchanged either way.
C10_WaitKey ==
  [][ (Fetchable /\ op = 15 /\ value = \h0A) =>
        LET rel == { i \in 0..14 : KEY_MAPPINGS[i + 1] \in key_released }
        IN /\ rel # {} =>
                /\ pc' = pc + 2
                /\ reg'[x] \in rel /\ \A i \in rel : reg'[x] <= i
                /\ \A i \in 0..15 : i # x => reg'[i] = reg[i]
           /\ rel = {} => pc' = pc /\ reg' = reg
           /\ idx' = idx /\ mem' = mem /\ stack' = stack /\ screen' = screen
           /\ result' = "running" ]_vars

C10_Witness ==
  /\ key_released = {"V"}
  /\ Fetchable /\ value = \h0A /\ op = 15
  /\ last = Word
  /\ cycles > 0

\* C11: a completed Fx55 copies Reg[0..x] to mem[I..I+x] and changes no other
\* memory cell and no register; a completed Fx65 copies mem[I..I+x] to
\* Reg[0..x] and changes no other register and no memory; both leave
\* idx = I + x + 1.
C11_DumpLoad ==
  [][ (Fetchable /\ op = 15 /\ value \in {\h55, \h65} /\ idx + x < MemSize) =>
        /\ idx' = idx + x + 1
        /\ result' = "running"
        /\ value = \h55 =>
             /\ \A i \in 0..x : mem'[idx + i] = reg[i]
             /\ \A a \in 0..(MemSize - 1) : (a < idx \/ a > idx + x) => mem'[a] = mem[a]
             /\ reg' = reg
        /\ value = \h65 =>
             /\ \A i \in 0..x : reg'[i] = mem[idx + i]
             /\ \A i \in (x + 1)..15 : reg'[i] = reg[i]
             /\ mem' = mem ]_vars

C11_Witness ==
  /\ last = \hF155
  /\ idx = \h302
  /\ mem[\h300] = reg[0] /\ mem[\h301] = reg[1]
  /\ reg[0] = 131 /\ reg[1] = 193

\* C12: the tone is playing exactly when the sound timer is above zero; Fx18
\* sets the timer to Reg[x] and plays or pauses the tone accordingly; a tick
\* takes one off a non-zero timer and pauses the tone when it reaches zero;
\* no other step changes the timer or the tone, so the tone set by Fx18 with
\* Reg[x] = v > 0 stops at the v-th following tick.
C12_ToneTracksSound ==
  /\ [](playing <=> sound > 0)
  /\ [][ /\ (Fetchable /\ op = 15 /\ value = \h18) =>
              (sound' = reg[x] /\ playing' = (reg[x] > 0))
         /\ (result = "running" /\ loc = "loop" /\ loc' = "batch") =>
              /\ sound' = (IF sound >= 1 THEN sound - 1 ELSE 0)
              /\ playing' = (sound >= 2)
         /\ (~(Fetchable /\ op = 15 /\ value = \h18) /\ loc' = loc) =>
              (sound' = sound /\ playing' = playing)
         /\ (loc = "batch" /\ loc' = "update"
               /\ ~(Fetchable /\ op = 15 /\ value = \h18)) =>
              (sound' = sound /\ playing' = playing)
         /\ (loc = "update") => (sound' = sound /\ playing' = playing) ]_vars

C12_Witness ==
  /\ mem[\h204] = \hF0 /\ mem[\h205] = \h18
  /\ reg[0] = 3
  /\ last = \h1206
  /\ sound = 0 /\ ~playing
  /\ delay = 0

\* C13: for the program 00E0, 1202 the screen is blank in every state, the
\* first batch ends with the clear as its only instruction, pc is 0x202 in
\* every state after the clear, and run never returns an error or panics.
C13_ScenarioA ==
  /\ [] ((program = << \h00, \hE0, \h12, \h02 >>) =>
          /\ result \in {"running", "Ok"}
          /\ \A r \in 0..(HEIGHT - 1) : screen[r] = {}
          /\ (last = -1) => (pc = ProgBase)
          /\ (last # -1) => (pc = \h202)
          /\ (last = \hE0) => (cycles = 0)
          /\ last \in {-1, \hE0, \h1202})
  /\ [][ (program = << \h00, \hE0, \h12, \h02 >> /\ Fetchable /\ pc = ProgBase) =>
          (last' = \hE0 /\ loc' = "update" /\ cycles = 0 /\ cycles' = 0) ]_vars

C13_Witness ==
  /\ program = << \h00, \hE0, \h12, \h02 >>
  /\ last = \h1202 /\ pc = \h202
  /\ loc = "batch" /\ cycles = 50
  /\ result = "running"

\* C14: 2nnn at address a pushes a + 2 on top of the stack and sets pc = nnn;
\* 00EE on a non-empty stack sets pc to the top entry and removes exactly that
\* entry; 1nnn sets pc = nnn and leaves the stack as it is.
C14_CallReturnLifo ==
  [][ /\ (Fetchable /\ op = 2) =>
           /\ stack' = stack \o << pc + 2 >>
           /\ pc' = Word % 4096
      /\ (Fetchable /\ Word = \h00EE /\ stack # << >>) =>
           /\ pc' = stack[Len(stack)]
           /\ Len(stack') = Len(stack) - 1
           /\ \A i \in 1..(Len(stack) - 1) : stack'[i] = stack[i]
           /\ result' = "running"
      /\ (Fetchable /\ op = 1) =>
           /\ pc' = Word % 4096
           /\ stack' = stack ]_vars

C14_Witness ==
  /\ last = \h00EE
  /\ pc = \h206
  /\ stack = << \h202 >>
  /\ mem[\h204] = \h22 /\ mem[\h205] = \h08

\* C15: 6xnn sets Reg[x] = nn, 7xnn sets Reg[x] = (Reg[x] + nn) mod 256, and
\* neither changes any other register, the flag register included; after
\* 6005 and 7005, Reg[0] = 10 and Reg[0xF] is still zero.
C15_Immediates ==
  /\ [][ /\ (Fetchable /\ op = 6) =>
              /\ reg'[(Word \div 256) % 16] = Word % 256
              /\ \A i \in 0..15 : i # (Word \div 256) % 16 => reg'[i] = reg[i]
         /\ (Fetchable /\ op = 7) =>
              /\ reg'[(Word \div 256) % 16] =
                   (reg[(Word \div 256) % 16] + (Word % 256)) % 256
              /\ \A i \in 0..15 : i # (Word \div 256) % 16 => reg'[i] = reg[i] ]_vars
  /\ [] ((program = << \h60, \h05, \h70, \h05 >> /\ last = \h7005) =>
           (reg[0] = 10 /\ reg[15] = 0))

C15_Witness ==
  /\ last = \h7001
  /\ mem[\h202] = \hC0 /\ mem[\h203] = \hFF
  /\ reg[0] = 0
  /\ reg[15] = 1

\* C16: with w = 256 * mem[pc] + mem[pc + 1], the decoded fields are
\* op = w >> 12, x = (w >> 8) AND 0xF, y = (w >> 4) AND 0xF, n = w AND 0xF,
\* value = w AND 0xFF and address = w AND 0xFFF; they are those of the word at
\* the pc before it is advanced, and a step that uses them (Annn, 1nnn, 6xnn)
\* changes nothing but what the instruction itself assigns.
C16_Decode ==
  /\ [] (Fetchable =>
           /\ Word \in 0..65535
           /\ op = Word \div 4096
           /\ x = (Word \div 256) % 16
           /\ y = (Word \div 16) % 16
           /\ n = Word % 16
           /\ value = Word % 256
           /\ address = Word % 4096
           /\ Word = 4096 * op + 256 * x + 16 * y + n)
  /\ [][ /\ (Fetchable /\ Word \div 4096 = 10) =>
              /\ idx' = Word % 4096
              /\ pc' = pc + 2
              /\ UNCHANGED << mem, reg, stack, delay, sound, screen, playing >>
         /\ (Fetchable /\ Word \div 4096 = 1) =>
              /\ pc' = Word % 4096
              /\ UNCHANGED << mem, reg, stack, idx, delay, sound, screen, playing >>
         /\ (Fetchable /\ Word \div 4096 = 6) =>
              /\ reg'[(Word \div 256) % 16] = Word % 256
              /\ pc' = pc + 2
              /\ UNCHANGED << mem, stack, idx, delay, sound, screen, playing >> ]_vars

C16_Witness ==
  /\ Fetchable
  /\ Word = \h8F14
  /\ op = 8 /\ x = 15 /\ y = 1 /\ n = 4
  /\ value = \h14 /\ address = \hF14

\* C17: a tick takes one off each non-zero timer, leaves a zero timer at zero
\* and starts a batch; a batch runs at most 100 instructions; a 00E0 or a
\* completed Dxyn ends its batch; any other instruction that neither fails
\* nor panics is followed by the next one of the same batch until 100 have
\* run; the delay timer is changed by the tick and Fx15 only, the sound timer
\* by the tick and Fx18 only.
C17_BatchStructure ==
  /\ [] (cycles \in 0..100 /\ (loc = "batch" => cycles < 100))
  /\ [][ /\ (loc = "loop" /\ loc' = "batch") =>
              /\ delay' = (IF delay = 0 THEN 0 ELSE delay - 1)
              /\ sound' = (IF sound = 0 THEN 0 ELSE sound - 1)
              /\ cycles' = 0
         /\ (loc = "loop" /\ loc' # "batch") => (delay' = delay /\ sound' = sound)
         /\ (loc = "update") =>
              (loc' = "loop" /\ delay' = delay /\ sound' = sound)
         /\ (loc = "batch" /\ ~Fetchable) => (delay' = delay /\ sound' = sound)
         /\ (Fetchable /\ ~(op = 15 /\ value = \h15)) => delay' = delay
         /\ (Fetchable /\ ~(op = 15 /\ value = \h18)) => sound' = sound
         /\ (Fetchable /\ result' = "running"
               /\ ((op = 0 /\ value = \hE0) \/ op = 13)) =>
              loc' = "update"
         /\ (Fetchable /\ result' = "running"
               /\ ~((op = 0 /\ value = \hE0) \/ op = 13)) =>
              /\ cycles' = cycles + 1
              /\ loc' = (IF cycles = 99 THEN "update" ELSE "batch") ]_vars

C17_Witness ==
  /\ cycles = 100 /\ loc = "update"
  /\ last = \hF107
  /\ delay = 2 /\ reg[1] = 2 /\ sound = 2

\* C18: the stack depth never exceeds the capacity of 12 entries reserved at
\* construction.
C18_StackBounded == Len(stack) <= 12

\* C19: the screen is changed by 00E0 and Dxyn steps only; 00E0 leaves every
\* row blank and changes neither memory, registers, stack, idx, timers nor
\* tone, and moves pc on by two.
C19_ScreenWriters ==
  [][ /\ (screen' # screen) =>
           (Fetchable /\ ((op = 0 /\ value = \hE0) \/ op = 13))
      /\ (Fetchable /\ op = 0 /\ value = \hE0) =>
           /\ \A r \in 0..31 : screen'[r] = {}
           /\ pc' = pc + 2
           /\ result' = "running"
           /\ UNCHANGED << mem, reg, stack, idx, delay, sound, playing >> ]_vars

C19_Witness ==
  /\ last = \h00E0
  /\ \A r \in 0..31 : screen[r] = {}
  /\ reg[1] = 31 /\ idx = \h50
  /\ delay = 2 /\ sound = 2 /\ playing
  /\ loc = "update"

\* C20: at the start memory holds the 80 font bytes at 0x050..0x09F, the
\* program from 0x200 and zero elsewhere, the registers, idx and both timers
\* are zero, the stack is empty and pc = 0x200; memory is changed by Fx33 and
\* Fx55 steps only; a completed Fx33 changes only mem[idx], mem[idx + 1] and
\* mem[idx + 2], to the hundreds, tens and units digits of Reg[x], and leaves
\* idx and every register as they were.
C20_MemoryWriters ==
  /\ /\ Len(FONTS) = 80
     /\ \A a \in 0..4095 :
          mem[a] = (IF a >= \h50 /\ a <= \h9F THEN FONTS[a - \h50 + 1]
                    ELSE IF a >= \h200 /\ a < \h200 + Len(program)
                         THEN program[a - \h200 + 1]
                         ELSE 0)
     /\ \A i \in 0..15 : reg[i] = 0
     /\ idx = 0 /\ delay = 0 /\ sound = 0
     /\ stack = << >>
     /\ pc = \h200
  /\ [][ /\ (mem' # mem) =>
              (Fetchable /\ op = 15 /\ value \in {\h33, \h55})
         /\ (Fetchable /\ op = 15 /\ value = \h33 /\ idx + 2 < 4096) =>
              /\ mem'[idx] \in 0..9 /\ mem'[idx + 1] \in 0..9 /\ mem'[idx + 2] \in 0..9
              /\ 100 * mem'[idx] + 10 * mem'[idx + 1] + mem'[idx + 2] = reg[x]
              /\ \A a \in 0..4095 : (a < idx \/ a > idx + 2) => mem'[a] = mem[a]
              /\ idx' = idx
              /\ reg' = reg
              /\ result' = "running" ]_vars

C20_Witness ==
  /\ last = \hF033
  /\ idx = \h300
  /\ reg[0] = 255
  /\ mem[\h300] = 2 /\ mem[\h301] = 5 /\ mem[\h302] = 5
  /\ mem[\h303] = 0

====
